---- MODULE Spec2Model ----
(***************************************************************************)
(* Galaxy intrinsic-alignment simulator (src/app.py): the module-level     *)
(* population, the Dash callback update_plot and make_ellipses.            *)
(*                                                                         *)
(* Numbers.  Every number the program computes is a numpy float64.  The    *)
(* model keeps binary floating point and narrows it: a value is an integer *)
(* count of quanta of 2^-FracBits, and it is representable when it has at  *)
(* most Precision significant bits.  Every arithmetic step rounds its      *)
(* exact result to the nearest representable value, ties to even, as       *)
(* IEEE-754 does (float64: 53 significant bits).                           *)
(***************************************************************************)
EXTENDS Integers, Sequences, FiniteSets

\* Significant bits of a float (53 in float64).
Precision == 8

\* Fractional bits of the quantum: small enough for pi/180 to keep full precision.
FracBits == Precision + 6

One == 2 ^ FracBits

Abs(n) == IF n < 0 THEN -n ELSE n

Sign(n) == IF n < 0 THEN -1 ELSE 1

Max(a, b) == IF a >= b THEN a ELSE b

Min(a, b) == IF a <= b THEN a ELSE b

\* Number of bits of n >= 0, four at a time.
NibbleLen == <<1, 2, 2, 3, 3, 3, 3, 4, 4, 4, 4, 4, 4, 4, 4>>

RECURSIVE BitLen(_)
BitLen(n) ==
    IF n = 0 THEN 0 ELSE IF n < 16 THEN NibbleLen[n] ELSE 4 + BitLen(n \div 16)

\* Nearest integer to num/q (num >= 0, q > 0), ties to even.
NearestEven(num, q) ==
    IF 2 * (num % q) > q \/ (2 * (num % q) = q /\ (num \div q) % 2 = 1)
    THEN (num \div q) + 1
    ELSE num \div q

\* Round the rational num/den (in quanta, num >= 0, den > 0) to a float.
RoundUnit(num, den, u) == u * NearestEven(num, den * u)

RoundPos(num, den) == RoundUnit(num, den, 2 ^ Max(BitLen(num \div den) - Precision, 0))

\* Round the rational num/den (den > 0) to the nearest float, ties to even.
Round(num, den) == Sign(num) * RoundPos(Abs(num), den)

\* The float nearest to the decimal literal num/den.
Lit(num, den) == Round(num * One, den)

\* Exponent and significand of a float n: n = Mant(n) * 2^Expo(n).
Expo(n) == Max(BitLen(Abs(n)) - Precision, 0)

Mant(n) == n \div (2 ^ Expo(n))

\* a + b, a - b
FAdd(a, b) == Round(a + b, 1)

FSub(a, b) == Round(a - b, 1)

\* a * b: the significands are multiplied exactly, the product rounded once.
FMulParts(ea, eb, a, b) ==
    IF ea + eb >= FracBits
    THEN RoundPos((a \div 2 ^ ea) * (b \div 2 ^ eb), 1) * 2 ^ (ea + eb - FracBits)
    ELSE RoundPos((a \div 2 ^ ea) * (b \div 2 ^ eb), 2 ^ (FracBits - ea - eb))

FMul(a, b) == Sign(a) * Sign(b) * FMulParts(Expo(a), Expo(b), Abs(a), Abs(b))

\* a / b (b > 0): the quotient of the significands, rounded once.
FDivParts(t, w, ma, mb) ==
    IF t < 0 THEN RoundPos(ma, mb * 2 ^ (-t))
    ELSE IF t <= w THEN RoundPos(ma * 2 ^ t, mb)
    ELSE RoundPos(ma * 2 ^ w, mb) * 2 ^ (t - w)

FDiv(a, b) ==
    Sign(a) * FDivParts(Expo(a) + FracBits - Expo(b), 2 * Precision + 2,
                        Mant(Abs(a)), Mant(b))

(***************************************************************************)
(* The library functions np.sin, np.cos and np.arctan2: the argument is    *)
(* reduced with pi/2 held to 2^-20, the reduced argument goes through the  *)
(* Taylor polynomial in fixed point at 2^-15, and the result is rounded to *)
(* a float.  The result is within one unit in the last place of the exact  *)
(* value, which is what the library guarantees.                            *)
(***************************************************************************)
TrigOne == 2 ^ 15

FineOne == 2 ^ 20

\* pi is taken as 355/113 (exact to 3 parts in 10^7, far below one quantum).
HalfPiFine == NearestEven(355 * FineOne, 226)

PiTrig == NearestEven(355 * TrigOne, 113)

\* np.pi: the float nearest to pi.
PI == Lit(355, 113)

\* Signed a/n and a*b/TrigOne, rounded to the nearest integer.
DivR(a, n) == Sign(a) * NearestEven(Abs(a), n)

MulT(a, b) == Sign(a) * Sign(b) * NearestEven(Abs(a) * Abs(b), TrigOne)

\* r - r^3/3! + r^5/5! - r^7/7! with r2 = r*r, by Horner's rule.
SinSeries(r, r2) ==
    MulT(r, TrigOne - DivR(MulT(r2, TrigOne - DivR(MulT(r2,
            TrigOne - DivR(r2, 42)), 20)), 6))

SinPoly(r) == SinSeries(r, MulT(r, r))

\* 1 - r^2/2! + r^4/4! - r^6/6! + r^8/8!
CosSeries(r2) ==
    TrigOne - DivR(MulT(r2, TrigOne - DivR(MulT(r2, TrigOne - DivR(MulT(r2,
            TrigOne - DivR(r2, 56)), 30)), 12)), 2)

CosPoly(r) == CosSeries(MulT(r, r))

FromTrig(v) == Round(v, TrigOne \div One)

\* The quadrant k mod 4 and the reduced argument r of a = k*(pi/2) + r.
SinQuadrant(q, r) ==
    FromTrig(CASE q = 0 -> SinPoly(r)
               [] q = 1 -> CosPoly(r)
               [] q = 2 -> -SinPoly(r)
               [] OTHER -> -CosPoly(r))

CosQuadrant(q, r) ==
    FromTrig(CASE q = 0 -> CosPoly(r)
               [] q = 1 -> -SinPoly(r)
               [] q = 2 -> -CosPoly(r)
               [] OTHER -> SinPoly(r))

Reduced(xf, k) == DivR(xf - k * HalfPiFine, FineOne \div TrigOne)

SinFine(xf, k) == SinQuadrant(k % 4, Reduced(xf, k))

CosFine(xf, k) == CosQuadrant(k % 4, Reduced(xf, k))

\* np.sin
Sin(a) == SinFine(a * (FineOne \div One), DivR(a * (FineOne \div One), HalfPiFine))

\* np.cos
Cos(a) == CosFine(a * (FineOne \div One), DivR(a * (FineOne \div One), HalfPiFine))

\* w - w^3/3 + w^5/5 - w^7/7 + w^9/9 with w2 = w*w, for |w| <= 1/2.
AtanSeries(w, w2) ==
    MulT(w, TrigOne - MulT(w2, DivR(TrigOne, 3) - MulT(w2, DivR(TrigOne, 5)
            - MulT(w2, DivR(TrigOne, 7) - MulT(w2, DivR(TrigOne, 9))))))

AtanPoly(w) == AtanSeries(w, MulT(w, w))

\* arctan z for 0 <= z <= 1: beyond 1/2 as pi/4 + arctan((z-1)/(z+1)).
AtanUnit(z) ==
    IF 2 * z > TrigOne
    THEN DivR(PiTrig, 4) + AtanPoly(DivR((z - TrigOne) * TrigOne, z + TrigOne))
    ELSE AtanPoly(z)

\* The angle of the point (ax, ay) of the first quadrant, scaled down by sh.
AtanQuadrant(ay, ax, sh) ==
    IF ay > ax
    THEN DivR(PiTrig, 2) - AtanUnit(NearestEven((ax \div sh) * TrigOne, ay \div sh))
    ELSE AtanUnit(NearestEven((ay \div sh) * TrigOne, ax \div sh))

ArctanSigned(y, x, a) ==
    FromTrig((IF y < 0 THEN -1 ELSE 1) * (IF x < 0 THEN PiTrig - a ELSE a))

\* np.arctan2(y, x), in (-pi, pi]; arctan2(0, 0) = 0.
Arctan2(y, x) ==
    IF x = 0 /\ y = 0 THEN 0
    ELSE ArctanSigned(y, x, AtanQuadrant(Abs(y), Abs(x),
            2 ^ Max(BitLen(Max(Abs(y), Abs(x))) - 15, 0)))

\* np.deg2rad(d) = d * (pi/180) and np.degrees(r) = r * (180/pi).
DegToRad == FDiv(PI, Lit(180, 1))

RadToDeg == FDiv(Lit(180, 1), PI)

Deg2Rad(d) == FMul(d, DegToRad)

Degrees(r) == FMul(r, RadToDeg)

\* C fmod(a, b), b > 0: exact, with the sign of a.
CFmod(a, b) == Sign(a) * (Abs(a) % b)

\* numpy's float a % b for b > 0: fmod(a, b), and b added to a negative
\* remainder (npy_divmod); the addition rounds like any other.
FMod(a, b) == IF CFmod(a, b) < 0 THEN FAdd(CFmod(a, b), b) ELSE CFmod(a, b)

(***************************************************************************)
(* Module level of src/app.py: the fixed parameters and the population.    *)
(***************************************************************************)
VARIABLES
    x, y, theta_random,          \* module-level arrays (lines 14-18)
    ia_strength, shear_strength, \* the callback's inputs: the value props
    preferred_angle_deg,         \*   of the layout's components
    shear_angle_deg,
    toggle_value, shear_pattern,
    theta_all,                   \* the last evaluation's final angles
    fig, hist_fig,               \* the callback's two outputs
    x0, y0, theta0               \* history: the arrays as generated at start-up

vars == <<x, y, theta_random, ia_strength, shear_strength, preferred_angle_deg,
          shear_angle_deg, toggle_value, shear_pattern, theta_all, fig, hist_fig,
          x0, y0, theta0>>

\* Number of galaxies (200 in the program).
N_galaxies == 2

ellipticity == Lit(6, 10)

\* Galaxies np.random.uniform can draw: a position in [0, field_size)^2 and a
\* base angle in [0, pi).  The first lies left of the shear centre (0.5, 0.5),
\* the second level with it.
GalaxyChoices ==
    { <<Lit(1, 4), Lit(75, 1), Lit(5, 2)>>,
      <<Lit(60, 1), Lit(1, 2), Lit(3, 4)>> }

Populations == [1..N_galaxies -> GalaxyChoices]

\* The sliders: min, max and step of each (strengths in steps of 1/20).
IaValues == { Lit(k, 20) : k \in {0, 7} }

ShearValues == { Lit(k, 20) : k \in {0, 20} }

\* Angle sliders that run over the full turn.
AngleValuesFullTurn == { 0, 180, 360 }

\* The angle sliders: 0 to 180 degrees, both ends included.
AngleValues == { 0, 180 }

DropdownValues == { "uniform", "radial", "tangential" }

\* A pattern value no dropdown option carries (a request built by hand).
OtherPatterns == { "unknown_value" }

ToggleValues == { <<>>, <<"show_vectors">> }

\* An output the callback has not produced yet.
NoFigure == [traces |-> <<>>, vectors |-> <<>>]

NoHistogram == <<>>

Two == Lit(2, 1)

Half == Lit(1, 2)

HalfPi == FDiv(PI, Two)

(***************************************************************************)
(* make_ellipses, lines 28-51.                                             *)
(***************************************************************************)
\* Points of one outline (line 34).
NPoints == 30

\* LinSpace with endpoint=False: num samples that stop short of stop.
LinSpaceOpen(stop, num, j) == FMul(Lit(j, 1), FDiv(stop, Lit(num, 1)))

\* np.linspace(0, stop, num)[j], j = 0 .. num-1: j * (stop / (num - 1)), and
\* the last sample set to stop itself.
LinSpace(stop, num, j) ==
    IF j = num - 1 THEN stop ELSE FMul(Lit(j, 1), FDiv(stop, Lit(num - 1, 1)))

\* line 34: t_vals.
TVals == [j \in 1..NPoints |-> LinSpace(FMul(Two, PI), NPoints, j - 1)]

\* lines 31-32: w/2 and h/2 with w = 1.0, h = w * e.
HalfWidth == FDiv(Lit(1, 1), Two)

HalfHeight == FDiv(FMul(Lit(1, 1), ellipticity), Two)

\* lines 38-42: rotate (ex, ey) by the angle of cosine c and sine s, translate.
RotateTranslate(c, s, ex, ey, xi, yi) ==
    << FAdd(FSub(FMul(c, ex), FMul(s, ey)), xi),
       FAdd(FAdd(FMul(s, ex), FMul(c, ey)), yi) >>

\* lines 35-42: the point of parameter tv on the outline of one galaxy.
EllipsePoint(xi, yi, t, tv) ==
    RotateTranslate(Cos(t), Sin(t), FMul(HalfWidth, Cos(tv)),
                    FMul(HalfHeight, Sin(tv)), xi, yi)

\* lines 28-51: one outline (a sequence of NPoints points) per galaxy.
make_ellipses(xs, ys, thetas) ==
    [i \in 1..Len(thetas) |->
        [j \in 1..NPoints |-> EllipsePoint(xs[i], ys[i], thetas[i], TVals[j])]]

(***************************************************************************)
(* update_plot, lines 190-286.                                             *)
(***************************************************************************)

\* ShearAngle whose default branch falls back to the slider's angle.
ShearAngleFallback(pattern, shear_angle_uniform, xi, yi) ==
    CASE pattern = "radial" ->
            FAdd(Arctan2(FSub(yi, Half), FSub(xi, Half)), HalfPi)
      [] pattern = "tangential" -> Arctan2(FSub(yi, Half), FSub(xi, Half))
      [] OTHER -> shear_angle_uniform

\* ShearAngle whose radial and tangential fields are turned by the slider's angle.
ShearAngleRotated(pattern, shear_angle_uniform, xi, yi) ==
    CASE pattern = "uniform" -> shear_angle_uniform
      [] pattern = "radial" ->
            FAdd(FAdd(Arctan2(FSub(yi, Half), FSub(xi, Half)), HalfPi),
                 shear_angle_uniform)
      [] pattern = "tangential" ->
            FAdd(Arctan2(FSub(yi, Half), FSub(xi, Half)), shear_angle_uniform)
      [] OTHER -> 0

\* lines 203-213: the shear direction of one galaxy.
ShearAngle(pattern, shear_angle_uniform, xi, yi) ==
    CASE pattern = "uniform" -> shear_angle_uniform
      [] pattern = "radial" ->
            FAdd(Arctan2(FSub(yi, Half), FSub(xi, Half)), HalfPi)
      [] pattern = "tangential" -> Arctan2(FSub(yi, Half), FSub(xi, Half))
      [] OTHER -> 0

\* Offset without the doubling of the angle.
OffsetNoDouble(strength, direction, theta) ==
    FMul(strength, Sin(FSub(direction, theta)))

\* line 216 and line 219: strength * sin(2 * (direction - theta)).
Offset(strength, direction, theta) ==
    FMul(strength, Sin(FMul(Two, FSub(direction, theta))))

\* FinalAngle with the intrinsic strength and the preferred angle exchanged.
FinalAngleSwapped(theta, ia, preferred_angle, sh, shear_direction) ==
    FAdd(FAdd(theta, Offset(preferred_angle, ia, theta)),
         Offset(sh, shear_direction, theta))

\* line 222: theta_random + intrinsic_offset + shear_offset, for one galaxy.
FinalAngle(theta, ia, preferred_angle, sh, shear_direction) ==
    FAdd(FAdd(theta, Offset(ia, preferred_angle, theta)),
         Offset(sh, shear_direction, theta))

\* lines 198-222: theta_all of one evaluation.
ThetaAllRad(ia, sh, preferred_angle, shear_angle_uniform, pattern, xs, ys, thetas) ==
    [i \in 1..Len(thetas) |->
        FinalAngle(thetas[i], ia, preferred_angle, sh,
                   ShearAngle(pattern, shear_angle_uniform, xs[i], ys[i]))]

ThetaAll(ia, sh, pref_deg, shear_deg, pattern, xs, ys, thetas) ==
    ThetaAllRad(ia, sh, Deg2Rad(Lit(pref_deg, 1)), Deg2Rad(Lit(shear_deg, 1)),
                pattern, xs, ys, thetas)

\* lines 243-257: the orientation vectors, <<x_start, y_start, x_end, y_end>> each.
HalfAxis == FMul(Half, Lit(5, 2))

Segment(xi, yi, dx, dy) == <<FSub(xi, dx), FSub(yi, dy), FAdd(xi, dx), FAdd(yi, dy)>>

Vectors(xs, ys, thetas) ==
    [i \in 1..Len(thetas) |->
        Segment(xs[i], ys[i], FMul(HalfAxis, Cos(thetas[i])),
                FMul(HalfAxis, Sin(thetas[i])))]

\* line 271: np.degrees(theta) % 180, for one angle.
HistogramAngle(theta) == FMod(Degrees(theta), Lit(180, 1))

\* line 271: angles_deg.
AnglesDeg(thetas) == [i \in 1..Len(thetas) |-> HistogramAngle(thetas[i])]

\* Figure drawn from the angles wrapped into [0, pi) like the histogram's.
FigureWrapped(xs, ys, thetas, toggle) ==
    [traces |-> [i \in 1..Len(thetas) |->
                    <<xs[i], ys[i], Deg2Rad(HistogramAngle(thetas[i]))>>],
     vectors |-> IF \E k \in 1..Len(toggle) : toggle[k] = "show_vectors"
                 THEN Vectors(xs, ys, [i \in 1..Len(thetas) |->
                                          Deg2Rad(HistogramAngle(thetas[i]))])
                 ELSE <<>>]

\* lines 225-268: the figure.  A trace of make_ellipses is fixed by the position
\* and the rotation it is called with, <<x, y, theta>>, which is what the record
\* keeps of it; the vectors are kept as computed.
Figure(xs, ys, thetas, toggle) ==
    [traces |-> [i \in 1..Len(thetas) |-> <<xs[i], ys[i], thetas[i]>>],
     vectors |-> IF \E k \in 1..Len(toggle) : toggle[k] = "show_vectors"
                 THEN Vectors(xs, ys, thetas) ELSE <<>>]

\* Evaluate that stores the final angles back into theta_random.
EvaluateInPlace(ia, sh, pref_deg, shear_deg, toggle, pattern) ==
    /\ ia_strength' = ia
    /\ shear_strength' = sh
    /\ preferred_angle_deg' = pref_deg
    /\ shear_angle_deg' = shear_deg
    /\ toggle_value' = toggle
    /\ shear_pattern' = pattern
    /\ theta_all' = ThetaAll(ia, sh, pref_deg, shear_deg, pattern, x, y, theta_random)
    /\ fig' = Figure(x, y, theta_all', toggle)
    /\ hist_fig' = AnglesDeg(theta_all')
    /\ theta_random' = theta_all'
    /\ UNCHANGED <<x, y, x0, y0, theta0>>

\* Evaluate that perturbs the previous evaluation's final angles.
EvaluateAccumulate(ia, sh, pref_deg, shear_deg, toggle, pattern) ==
    /\ ia_strength' = ia
    /\ shear_strength' = sh
    /\ preferred_angle_deg' = pref_deg
    /\ shear_angle_deg' = shear_deg
    /\ toggle_value' = toggle
    /\ shear_pattern' = pattern
    /\ theta_all' = ThetaAll(ia, sh, pref_deg, shear_deg, pattern, x, y,
                             IF theta_all = <<>> THEN theta_random ELSE theta_all)
    /\ fig' = Figure(x, y, theta_all', toggle)
    /\ hist_fig' = AnglesDeg(theta_all')
    /\ UNCHANGED <<x, y, theta_random, x0, y0, theta0>>

\* One run of the callback with the six input values.
Evaluate(ia, sh, pref_deg, shear_deg, toggle, pattern) ==
    /\ ia_strength' = ia
    /\ shear_strength' = sh
    /\ preferred_angle_deg' = pref_deg
    /\ shear_angle_deg' = shear_deg
    /\ toggle_value' = toggle
    /\ shear_pattern' = pattern
    /\ theta_all' = ThetaAll(ia, sh, pref_deg, shear_deg, pattern, x, y, theta_random)
    /\ fig' = Figure(x, y, theta_all', toggle)
    /\ hist_fig' = AnglesDeg(theta_all')
    /\ UNCHANGED <<x, y, theta_random, x0, y0, theta0>>

(***************************************************************************)
(* The session: start-up, the first call on page load, one call per change *)
(* of an input.                                                            *)
(***************************************************************************)
Init ==
    /\ \E pop \in Populations :
        /\ x = [i \in 1..N_galaxies |-> pop[i][1]]
        /\ y = [i \in 1..N_galaxies |-> pop[i][2]]
        /\ theta_random = [i \in 1..N_galaxies |-> pop[i][3]]
    /\ x0 = x /\ y0 = y /\ theta0 = theta_random
    /\ ia_strength = 0
    /\ shear_strength = 0
    /\ preferred_angle_deg = 45
    /\ shear_angle_deg = 90
    /\ toggle_value = <<>>
    /\ shear_pattern = "uniform"
    /\ theta_all = <<>>
    /\ fig = NoFigure
    /\ hist_fig = NoHistogram

Loaded == fig # NoFigure

PageLoad ==
    /\ ~Loaded
    /\ Evaluate(ia_strength, shear_strength, preferred_angle_deg, shear_angle_deg,
                toggle_value, shear_pattern)

SetIaStrength ==
    /\ Loaded
    /\ \E v \in IaValues :
        Evaluate(v, shear_strength, preferred_angle_deg, shear_angle_deg,
                 toggle_value, shear_pattern)

SetShearStrength ==
    /\ Loaded
    /\ \E v \in ShearValues :
        Evaluate(ia_strength, v, preferred_angle_deg, shear_angle_deg,
                 toggle_value, shear_pattern)

SetPreferredAngle ==
    /\ Loaded
    /\ \E d \in AngleValues :
        Evaluate(ia_strength, shear_strength, d, shear_angle_deg,
                 toggle_value, shear_pattern)

SetShearAngle ==
    /\ Loaded
    /\ \E d \in AngleValues :
        Evaluate(ia_strength, shear_strength, preferred_angle_deg, d,
                 toggle_value, shear_pattern)

SetToggle ==
    /\ Loaded
    /\ \E t \in ToggleValues :
        Evaluate(ia_strength, shear_strength, preferred_angle_deg, shear_angle_deg,
                 t, shear_pattern)

SetShearPattern ==
    /\ Loaded
    /\ \E p \in DropdownValues :
        Evaluate(ia_strength, shear_strength, preferred_angle_deg, shear_angle_deg,
                 toggle_value, p)

RequestOtherPattern ==
    /\ Loaded
    /\ \E p \in OtherPatterns :
        Evaluate(ia_strength, shear_strength, preferred_angle_deg, shear_angle_deg,
                 toggle_value, p)

Next ==
    \/ PageLoad
    \/ SetIaStrength
    \/ SetShearStrength
    \/ SetPreferredAngle
    \/ SetShearAngle
    \/ SetToggle
    \/ SetShearPattern
    \/ RequestOtherPattern

Spec == Init /\ [][Next]_vars

(***************************************************************************)
(* np.degrees(theta_all) % 180 (line 271) as a function of the final       *)
(* angle: the angle theta and the angle theta + pi, any sign and size.     *)
(***************************************************************************)
HistInputs == { Round(k * One, 16) : k \in -64..64 } \cup { -2, -1, 1, 2 }

InitHist ==
    /\ x = <<>> /\ y = <<>> /\ theta_random = <<>>
    /\ x0 = x /\ y0 = y /\ theta0 = theta_random
    /\ ia_strength = 0
    /\ shear_strength = 0
    /\ preferred_angle_deg = 45
    /\ shear_angle_deg = 90
    /\ toggle_value = <<>>
    /\ shear_pattern = "uniform"
    /\ \E t \in HistInputs : theta_all = <<t, FAdd(t, PI)>>
    /\ fig = NoFigure
    /\ hist_fig = NoHistogram

Histogram ==
    /\ hist_fig = NoHistogram
    /\ hist_fig' = AnglesDeg(theta_all)
    /\ UNCHANGED <<x, y, theta_random, ia_strength, shear_strength,
                   preferred_angle_deg, shear_angle_deg, toggle_value,
                   shear_pattern, theta_all, fig, x0, y0, theta0>>

NextHist == Histogram

SpecHist == InitHist /\ [][NextHist]_vars

(***************************************************************************)
(* make_ellipses as a function of one galaxy's position and rotation.      *)
(***************************************************************************)
EllipsePositions == { 0, Lit(1, 4), Lit(3, 1), Lit(60, 1) }

EllipseAngles == { Round(k * One, 2) : k \in -4..10 }

InitEllipse ==
    /\ \E xi \in EllipsePositions, yi \in EllipsePositions, t \in EllipseAngles :
        /\ x = <<xi>>
        /\ y = <<yi>>
        /\ theta_all = <<t>>
    /\ theta_random = <<>>
    /\ x0 = x /\ y0 = y /\ theta0 = theta_random
    /\ ia_strength = 0
    /\ shear_strength = 0
    /\ preferred_angle_deg = 45
    /\ shear_angle_deg = 90
    /\ toggle_value = <<>>
    /\ shear_pattern = "uniform"
    /\ fig = NoFigure
    /\ hist_fig = NoHistogram

DrawEllipses ==
    /\ fig = NoFigure
    /\ fig' = [traces |-> make_ellipses(x, y, theta_all), vectors |-> <<>>]
    /\ UNCHANGED <<x, y, theta_random, ia_strength, shear_strength,
                   preferred_angle_deg, shear_angle_deg, toggle_value,
                   shear_pattern, theta_all, hist_fig, x0, y0, theta0>>

NextEllipse == DrawEllipses

SpecEllipse == InitEllipse /\ [][NextEllipse]_vars

(***************************************************************************)
(* The orientation model on a galaxy and its twin turned by pi: the same   *)
(* position, the base angles theta and theta + pi.                         *)
(***************************************************************************)
TwinAngles == { 0, Lit(3, 4), Lit(5, 2), Lit(25, 8) }

TwinPositions == { <<Lit(1, 4), Lit(75, 1)>>, <<Lit(60, 1), Lit(1, 2)>> }

TwinStrengths == { Lit(k, 20) : k \in {0, 7, 20} }

TwinDegrees == { 0, 45, 90, 180 }

InitTwin ==
    /\ \E pos \in TwinPositions, t \in TwinAngles :
        /\ x = <<pos[1], pos[1]>>
        /\ y = <<pos[2], pos[2]>>
        /\ theta_random = <<t, FAdd(t, PI)>>
    /\ x0 = x /\ y0 = y /\ theta0 = theta_random
    /\ ia_strength = 0
    /\ shear_strength = 0
    /\ preferred_angle_deg = 45
    /\ shear_angle_deg = 90
    /\ toggle_value = <<>>
    /\ shear_pattern = "uniform"
    /\ theta_all = <<>>
    /\ fig = NoFigure
    /\ hist_fig = NoHistogram

EvaluateTwin ==
    /\ ~Loaded
    /\ \E ia \in TwinStrengths, sh \in TwinStrengths, pd \in TwinDegrees,
          sd \in TwinDegrees, p \in DropdownValues \cup OtherPatterns :
        Evaluate(ia, sh, pd, sd, toggle_value, p)

NextTwin == EvaluateTwin

SpecTwin == InitTwin /\ [][NextTwin]_vars

(***************************************************************************)
(* The properties.                                                         *)
(***************************************************************************)
ShowVectors == \E k \in 1..Len(toggle_value) : toggle_value[k] = "show_vectors"

PreferredAngle == Deg2Rad(Lit(preferred_angle_deg, 1))

ShearAngleUniform == Deg2Rad(Lit(shear_angle_deg, 1))

\* C1: an evaluation with ia_strength = 0 and shear_strength = 0 returns every
\* galaxy's base angle unchanged, whatever the pattern and the two angles.
ZeroPerturbationIdentity ==
    (Loaded /\ ia_strength = 0 /\ shear_strength = 0) => theta_all = theta_random

ZeroPerturbationUnknownPattern ==
    /\ Loaded
    /\ ia_strength = 0
    /\ shear_strength = 0
    /\ shear_pattern \notin DropdownValues
    /\ preferred_angle_deg = 180

\* C2: an evaluation with a pattern that is none of uniform, radial, tangential
\* yields the final angles of the uniform pattern with shear angle 0.
PatternFallback ==
    (Loaded /\ shear_pattern \notin DropdownValues) =>
        theta_all = ThetaAll(ia_strength, shear_strength, preferred_angle_deg, 0,
                             "uniform", x, y, theta_random)

FallbackWithShear ==
    /\ Loaded
    /\ shear_pattern \notin DropdownValues
    /\ shear_strength # 0
    /\ shear_angle_deg # 0
    /\ theta_all # theta_random

\* C3: after any sequence of evaluations x, y and theta_random are the arrays
\* generated at start-up, element for element, and still N_galaxies long.
PopulationImmutable ==
    /\ x = x0 /\ y = y0 /\ theta_random = theta0
    /\ Len(x) = N_galaxies /\ Len(y) = N_galaxies /\ Len(theta_random) = N_galaxies

ManyEvaluations ==
    /\ Loaded
    /\ ShowVectors
    /\ shear_pattern = "radial"
    /\ ia_strength # 0
    /\ shear_strength # 0
    /\ theta_all # theta_random

\* C4: the final angles of an evaluation are a function of its arguments and of
\* the population generated at start-up, whatever was evaluated before.
HistoryIndependence ==
    Loaded => theta_all = ThetaAll(ia_strength, shear_strength, preferred_angle_deg,
                                   shear_angle_deg, shear_pattern, x0, y0, theta0)

EvaluatedAfterOthers ==
    /\ Loaded
    /\ shear_pattern = "tangential"
    /\ ia_strength # 0
    /\ shear_strength # 0
    /\ preferred_angle_deg = 0
    /\ theta_all # theta0

\* C5: the histogram value degrees(theta) % 180 is >= 0 and < 180 for every final
\* angle, and theta and theta + pi give the same histogram value.
HistogramWrap ==
    hist_fig # NoHistogram =>
        /\ \A i \in 1..Len(hist_fig) : 0 <= hist_fig[i] /\ hist_fig[i] < Lit(180, 1)
        /\ hist_fig[1] = hist_fig[2]

\* C6 as stated: the first point of every outline equals its last point.
EllipseClosedExactly ==
    \A i \in 1..Len(fig.traces) : fig.traces[i][1] = fig.traces[i][NPoints]

\* Two coordinates that agree to within 2 machine epsilons (2^(1-Precision)) of
\* max(1, |a|).
CoordinateClose(a, b) == Abs(a - b) * 2 ^ (Precision - 2) <= Max(One, Abs(a))

\* C6: the first and the last point of every outline agree to within rounding:
\* each coordinate to 2 machine epsilons of max(1, |coordinate|).
EllipseClosedWithinRounding ==
    \A i \in 1..Len(fig.traces) : \A c \in 1..2 :
        CoordinateClose(fig.traces[i][1][c], fig.traces[i][NPoints][c])

EllipseOpenByRounding ==
    /\ Len(fig.traces) = 1
    /\ x[1] = Lit(60, 1)
    /\ y[1] = Lit(1, 4)
    /\ fig.traces[1][1] # fig.traces[1][NPoints]

\* Two angles that agree to within 64 machine epsilons.
AngleClose(a, b) == Abs(a - b) * 2 ^ Precision <= 128 * One

TwinShearAngle(i) == ShearAngle(shear_pattern, ShearAngleUniform, x[i], y[i])

\* C7 as stated: turning the base angle by pi leaves both offsets unchanged and
\* moves the final angle by exactly pi.
PeriodicityExact ==
    Loaded =>
        /\ Offset(ia_strength, PreferredAngle, theta_random[1])
             = Offset(ia_strength, PreferredAngle, theta_random[2])
        /\ Offset(shear_strength, TwinShearAngle(1), theta_random[1])
             = Offset(shear_strength, TwinShearAngle(2), theta_random[2])
        /\ theta_all[2] - theta_all[1] = PI

\* C7: turning the base angle by pi leaves both offsets unchanged, and moves the
\* final angle by pi, to within rounding (64 machine epsilons).
PeriodicityWithinRounding ==
    Loaded =>
        /\ AngleClose(Offset(ia_strength, PreferredAngle, theta_random[1]),
                      Offset(ia_strength, PreferredAngle, theta_random[2]))
        /\ AngleClose(Offset(shear_strength, TwinShearAngle(1), theta_random[1]),
                      Offset(shear_strength, TwinShearAngle(2), theta_random[2]))
        /\ AngleClose(theta_all[2] - theta_all[1], PI)

TwinOffByRounding ==
    /\ Loaded
    /\ ia_strength = One
    /\ shear_strength = Lit(7, 20)
    /\ shear_pattern = "radial"
    /\ Offset(ia_strength, PreferredAngle, theta_random[1])
         # Offset(ia_strength, PreferredAngle, theta_random[2])
    /\ theta_all[2] - theta_all[1] # PI

\* C8 as stated: both angles in [0, pi), both strengths in [0, 1].
ParameterDomainHalfOpen ==
    Loaded =>
        /\ 0 <= PreferredAngle /\ PreferredAngle < PI
        /\ 0 <= ShearAngleUniform /\ ShearAngleUniform < PI
        /\ 0 <= ia_strength /\ ia_strength <= One
        /\ 0 <= shear_strength /\ shear_strength <= One

\* C8: in every evaluation the radian values preferred_angle and shear_angle lie
\* in the closed interval [0, pi] and both strengths lie in [0, 1].
ParameterDomainClosed ==
    Loaded =>
        /\ 0 <= PreferredAngle /\ PreferredAngle <= PI
        /\ 0 <= ShearAngleUniform /\ ShearAngleUniform <= PI
        /\ 0 <= ia_strength /\ ia_strength <= One
        /\ 0 <= shear_strength /\ shear_strength <= One

SliderAtMaximum ==
    /\ Loaded
    /\ preferred_angle_deg = 180
    /\ PreferredAngle = PI

\* C9: the final angle is base + intrinsic offset + shear offset, both offsets
\* taken at the base angle, with no normalisation; the ellipses and the vectors
\* get that value, and only the histogram's copy is reduced modulo 180 degrees.
UnwrappedSum ==
    Loaded =>
        /\ \A i \in 1..Len(theta_random) :
            theta_all[i] =
                FAdd(FAdd(theta_random[i],
                          FMul(ia_strength,
                               Sin(FMul(Two, FSub(PreferredAngle, theta_random[i]))))),
                     FMul(shear_strength,
                          Sin(FMul(Two, FSub(TwinShearAngle(i), theta_random[i])))))
        /\ \A i \in 1..Len(theta_all) : fig.traces[i] = <<x[i], y[i], theta_all[i]>>
        /\ ShowVectors => fig.vectors = Vectors(x, y, theta_all)
        /\ hist_fig = [i \in 1..Len(theta_all) |->
                          FMod(Degrees(theta_all[i]), Lit(180, 1))]

AngleOutsideHalfTurn ==
    /\ Loaded
    /\ ShowVectors
    /\ \E i \in 1..Len(theta_all) :
        /\ theta_all[i] >= PI
        /\ fig.traces[i][3] = theta_all[i]
        /\ hist_fig[i] # Degrees(theta_all[i])

\* The values the shear-angle slider can hold, its initial one included.
ShearAngleDomain == AngleValues \cup {90}

\* C10: under a pattern other than uniform the final angles do not depend on
\* shear_angle; under the uniform pattern they do not depend on the positions.
PatternNonInterference ==
    Loaded =>
        /\ shear_pattern # "uniform" =>
            \A d \in ShearAngleDomain :
                ThetaAll(ia_strength, shear_strength, preferred_angle_deg, d,
                         shear_pattern, x, y, theta_random) = theta_all
        /\ shear_pattern = "uniform" =>
            \A pop \in Populations :
                ThetaAll(ia_strength, shear_strength, preferred_angle_deg,
                         shear_angle_deg, shear_pattern,
                         [i \in 1..N_galaxies |-> pop[i][1]],
                         [i \in 1..N_galaxies |-> pop[i][2]], theta_random) = theta_all

RadialWithShear ==
    /\ Loaded
    /\ shear_pattern = "radial"
    /\ shear_strength # 0
    /\ shear_angle_deg = 180
    /\ theta_all # theta_random

====
